---- MODULE Spec2Model ----
(***************************************************************************)
(* Model of the parser-generating agent (agent.py) and of its offline test *)
(* harness (test_parser.py).                                               *)
(*                                                                         *)
(*   Spec        main(): one-time setup, then the bounded retry loop       *)
(*               synthesize -> write artifact -> test_parser.              *)
(*   VerifySpec  the comparison of test_parser (agent.py) and the one of   *)
(*               the pytest harness, applied to every pair of a candidate  *)
(*               output table and a reference table of the bounded sets.   *)
(***************************************************************************)
EXTENDS Integers, Sequences, FiniteSets, TLC

\* ------------------------------------------------------------------ bounds
\* Tables have at most MaxRows rows.
MaxRows == 1

\* Amount cells are enumerated up to MaxLen characters.
MaxLen == 3

\* range(1, 4): the attempts are numbered 1..MAX_ATTEMPTS.
MAX_ATTEMPTS == 3

\* ------------------------------------------------------------------ tables
\* A table (pandas DataFrame) is [index, columns]: the row labels, and the
\* columns in declared order, each [name, dtype, values].
NaN == "NaN"
IntVals == {"100", "250"}
FloatVals == IntVals \cup {NaN}

\* Column names of the reference CSV, in file order (read_csv keeps the header
\* order and makes the names distinct), and the names a candidate may use.
RefCols == <<"Date", "Balance">>
Names == {"Date", "Description", "Balance"}

RangeIndex(n) == [i \in 1..n |-> i - 1]

\* Row labels a candidate's output may carry: the default ones, or shifted
\* ones (rows were dropped before the first kept row).
IndexLabels(n) == {[i \in 1..n |-> i - 1 + s] : s \in {0, 1}}

ColumnsNamed(name, n) ==
    {[name |-> name, dtype |-> "int64", values |-> v] : v \in [1..n -> IntVals]}
    \cup {[name |-> name, dtype |-> "float64", values |-> v] : v \in [1..n -> FloatVals]}

AllColumns(n) == UNION {ColumnsNamed(nm, n) : nm \in Names}

\* What pd.read_csv can return for the reference file: default row labels, at
\* least one column, the header's names.
ReferenceTables ==
    UNION {
        {[index |-> RangeIndex(n), columns |-> cs] :
            cs \in {f \in [1..c -> AllColumns(n)] : \A i \in 1..c : f[i].name = RefCols[i]}}
        : n \in 0..MaxRows, c \in 1..Len(RefCols)}

\* What a candidate's parse() can return when it returns a table: any row
\* labels, any columns (distinct names) in any order.
ResultTables ==
    UNION {
        {[index |-> ix, columns |-> cs] :
            ix \in IndexLabels(n),
            cs \in {f \in [1..c -> AllColumns(n)] :
                        \A i, j \in 1..c : f[i].name = f[j].name => i = j}}
        : n \in 0..MaxRows, c \in 0..Len(RefCols)}

\* DataFrame.shape
shape(df) == <<Len(df.index), Len(df.columns)>>

\* list(df.columns)
columns(df) == [i \in 1..Len(df.columns) |-> df.columns[i].name]

\* col in df.columns
HasColumn(df, col) == \E i \in 1..Len(df.columns) : df.columns[i].name = col

\* df[col] (the names of a table are distinct)
Column(df, col) == df.columns[CHOOSE i \in 1..Len(df.columns) : df.columns[i].name = col]

\* df.reset_index(drop=True): the row labels become 0..n-1, nothing else changes.
reset_index(df) == [df EXCEPT !.index = RangeIndex(Len(df.index))]

\* pandas array_equivalent: same length, and position by position the same
\* value, a NaN being equal to a NaN in the same position.
array_equivalent(left, right) ==
    /\ Len(left) = Len(right)
    /\ \A i \in 1..Len(left) :
          \/ left[i] = NaN /\ right[i] = NaN
          \/ left[i] # NaN /\ right[i] # NaN /\ left[i] = right[i]

\* pandas array_equals: the element types must be the same, then the values.
array_equals(left, right) ==
    /\ left.dtype = right.dtype
    /\ array_equivalent(left.values, right.values)

\* DataFrame.equals reduced to the comparison of the two axes.
DataFrameEquals_AxesOnly(a, b) ==
    /\ a.index = b.index
    /\ columns(a) = columns(b)

\* DataFrame.equals: both axes equal (row labels, column names in order) and
\* every column equal with the same element type.
DataFrameEquals(a, b) ==
    /\ a.index = b.index
    /\ columns(a) = columns(b)
    /\ \A i \in 1..Len(a.columns) : array_equals(a.columns[i], b.columns[i])

\* Series.equals on result_df[col], expected_df[col]: row labels, element
\* type and values.
SeriesEquals(a, b, col) ==
    /\ a.index = b.index
    /\ array_equals(Column(a, col), Column(b, col))

\* ------------------------------------------------------------ files and code
\* The reference CSV on disk: absent, unreadable by pd.read_csv, or a table.
NoTable == [index |-> <<>>, columns |-> <<>>]
CsvAbsent == [kind |-> "absent", table |-> NoTable]
CsvBroken == [kind |-> "broken", table |-> NoTable]
CsvOf(t) == [kind |-> "table", table |-> t]

\* Generated source text is modelled by what it does when test_parser loads it
\* and calls parse(pdf_path) on the sample PDF:
\*   syntax       exec_module raises (SyntaxError, ImportError, ...)
\*   no_parse     the module defines no parse: parser_module.parse raises
\*   raised       parse raises an Exception
\*   not_a_table  parse returns a value without reset_index (None, a list)
\*   exits        the module or parse raises SystemExit (sys.exit, exit())
\*   table        parse returns the table
CodeFault(k) == [kind |-> k, table |-> NoTable]
CodeReturning(t) == [kind |-> "table", table |-> t]
FaultKinds == {"syntax", "no_parse", "raised", "not_a_table"}

\* ------------------------------------------------------------------ verdicts
\* The (success, message) pair of test_parser; message is kept structured:
\*   passed   "Parser test passed!"
\*   shape    "Parser test failed. Shape mismatch: Result R vs Expected E"
\*   missing  "Parser test failed. Missing column: <column>"
\*   column   "Parser test failed. Column <column> doesn't match"
\*   empty    "Parser test failed. " (diff was left empty)
\*   error    "Error testing parser: <error>"
Message(kind, column, result, expected, error) ==
    [kind |-> kind, column |-> column, result |-> result, expected |-> expected,
     error |-> error]
Verdict(success, message) == [success |-> success, message |-> message, escaped |-> FALSE]
\* A BaseException that is no Exception leaves test_parser through its
\* except clause: there is no verdict.
Escaped == [success |-> FALSE, message |-> Message("none", "", <<>>, <<>>, "SystemExit"),
            escaped |-> TRUE]

\* The column-by-column loop of test_parser: the first expected column, in
\* the expected order, that is absent from the result or differs from it.
ColumnFails(result_df, expected_df, i) ==
    LET col == expected_df.columns[i].name IN
    \/ ~HasColumn(result_df, col)
    \/ ~SeriesEquals(result_df, expected_df, col)

\* FirstFailing with the loop's breaks left out: the last failing column wins.
FirstFailing_NoBreak(result_df, expected_df) ==
    LET bad == {i \in 1..Len(expected_df.columns) : ColumnFails(result_df, expected_df, i)}
    IN IF bad = {} THEN 0 ELSE CHOOSE i \in bad : \A j \in bad : i >= j

FirstFailing(result_df, expected_df) ==
    LET bad == {i \in 1..Len(expected_df.columns) : ColumnFails(result_df, expected_df, i)}
    IN IF bad = {} THEN 0 ELSE CHOOSE i \in bad : \A j \in bad : i <= j

\* Diff with the presence of every expected column checked before any value
\* comparison.
Diff_PresenceFirst(result_df, expected_df) ==
    IF shape(result_df) # shape(expected_df)
    THEN Message("shape", "", shape(result_df), shape(expected_df), "")
    ELSE LET gone == {i \in 1..Len(expected_df.columns) :
                         ~HasColumn(result_df, expected_df.columns[i].name)}
             i == FirstFailing(result_df, expected_df)
         IN IF gone # {}
            THEN Message("missing",
                         expected_df.columns[CHOOSE g \in gone : \A h \in gone : g <= h].name,
                         <<>>, <<>>, "")
            ELSE IF i = 0 THEN Message("empty", "", <<>>, <<>>, "")
            ELSE Message("column", expected_df.columns[i].name, <<>>, <<>>, "")

\* Diff with the column loop run before the shape comparison.
Diff_ColumnsFirst(result_df, expected_df) ==
    LET i == FirstFailing(result_df, expected_df) IN
    IF i # 0
    THEN LET col == expected_df.columns[i].name IN
         IF ~HasColumn(result_df, col)
         THEN Message("missing", col, <<>>, <<>>, "")
         ELSE Message("column", col, <<>>, <<>>, "")
    ELSE IF shape(result_df) # shape(expected_df)
    THEN Message("shape", "", shape(result_df), shape(expected_df), "")
    ELSE Message("empty", "", <<>>, <<>>, "")

\* The diff of test_parser, built when equals() has returned False.
Diff(result_df, expected_df) ==
    IF shape(result_df) # shape(expected_df)
    THEN Message("shape", "", shape(result_df), shape(expected_df), "")
    ELSE LET i == FirstFailing(result_df, expected_df) IN
         IF i = 0 THEN Message("empty", "", <<>>, <<>>, "")
         ELSE LET col == expected_df.columns[i].name IN
              IF ~HasColumn(result_df, col)
              THEN Message("missing", col, <<>>, <<>>, "")
              ELSE Message("column", col, <<>>, <<>>, "")

\* test_parser from "Reset indices for comparison" on.
Compare(result, expected) ==
    LET result_df == reset_index(result)
        expected_df == reset_index(expected)
    IN IF DataFrameEquals(result_df, expected_df)
       THEN Verdict(TRUE, Message("passed", "", <<>>, <<>>, ""))
       ELSE Verdict(FALSE, Diff(result_df, expected_df))

\* test_parser(parser_path, pdf_path, expected_csv_path), code being the
\* content of parser_path and csv the state of expected_csv_path.
test_parser(code, csv) ==
    IF code.kind = "exits" THEN Escaped
    ELSE IF code.kind # "table"
    THEN Verdict(FALSE, Message("error", "", <<>>, <<>>, code.kind))
    ELSE IF csv.kind # "table"
    THEN Verdict(FALSE, Message("error", "", <<>>, <<>>, "read_csv"))
    ELSE Compare(code.table, csv.table)

\* ------------------------------------------------------------------ harness
\* test_parser of test_parser.py on one bank: "passed", "failed" (an assert
\* or an exception of the test body), "skipped" (no artifact).
\* assert_frame_equal(check_dtype=False) compares row labels, column names and
\* values and ignores the element types; the values of the model lie further
\* apart than its tolerance (rtol 1e-5), so close means equal here.
assert_frame_equal_no_dtype(a, b) ==
    /\ a.index = b.index
    /\ columns(a) = columns(b)
    /\ \A i \in 1..Len(a.columns) :
          array_equivalent(a.columns[i].values, b.columns[i].values)

harness_test_parser(code, csv) ==
    IF code.kind = "absent" THEN "skipped"
    ELSE IF code.kind # "table" \/ csv.kind # "table" THEN "failed"
    ELSE LET result_df == reset_index(code.table)
             expected_df == reset_index(csv.table)
         IN IF /\ shape(result_df) = shape(expected_df)
               /\ columns(result_df) = columns(expected_df)
               /\ assert_frame_equal_no_dtype(result_df, expected_df)
            THEN "passed" ELSE "failed"

\* ------------------------------------------------------------------ inputs
\* The reference table of the sample bank and what generated code may do on
\* the sample PDF, for the runs of main().
SampleTable(date, balance, dtype, ix) ==
    [index |-> ix,
     columns |-> <<[name |-> "Date", dtype |-> "float64", values |-> <<date>>],
                   [name |-> "Balance", dtype |-> dtype, values |-> <<balance>>]>>]
RefTable == SampleTable("100", "250", "float64", RangeIndex(1))

\* The reference after an edit of the CSV between two attempts.
AltRefTable == SampleTable("100", "100", "float64", RangeIndex(1))

\* Same content as the reference, rows labelled from 1.
MatchingCode == CodeReturning(SampleTable("100", "250", "float64", <<1>>))
\* A wrong Balance value; the right values with another element type.
WrongValueCode == CodeReturning(SampleTable("100", "100", "float64", <<0>>))
WrongDtypeCode == CodeReturning(SampleTable("100", "250", "int64", <<0>>))

Codes ==
    {MatchingCode, WrongValueCode, WrongDtypeCode, CodeFault("exits")}
    \cup {CodeFault(k) : k \in FaultKinds}

\* generate_parser_code returns None when the provider call raises; an answer
\* holding nothing but fences and blanks cleans to the empty string.
NoneCode == CodeFault("None")
EmptyCode == CodeFault("empty")
\* The artifact before the run: whatever custom_parsers/<bank>_parser.py held
\* (possibly nothing); no generated code is equal to it.
PriorContent == CodeFault("prior")
\* The artifact after open(path, 'w') truncated it and the write failed.
Truncated == CodeFault("truncated")

\* The provider's answer: the code, wrapped in ```python fences or not.
Responses == {[fenced |-> f, body |-> c] : f \in BOOLEAN, c \in Codes \cup {EmptyCode}}

\* re.sub(r'```python|```', '', code).strip()
clean(response) == response.body

\* `not parser_code`
Falsy(code) == code \in {NoneCode, EmptyCode}

\* ------------------------------------------------- icici_parser: amount cells
\* A cell of an extracted table row: None, or a string (a sequence of
\* characters). "x" stands for any character float() does not accept.
Chars == {"0", "1", ",", ".", " ", "x"}
Digits == {"0", "1"}
NoneCell == [none |-> TRUE, text |-> <<>>]
CellOf(text) == [none |-> FALSE, text |-> text]
NoCell == [none |-> TRUE, text |-> <<"-">>]

Texts == UNION {[1..n -> Chars] : n \in 0..MaxLen}
SampleTexts ==
    {<<"1", ",", "0", "0", "0", ".", "0", "0">>,
     <<" ", "1", ",", "0", "0", "0", ".", "0", "0", " ">>,
     <<"1", "0", ",", "0", "0", ",", "0", "0", "0">>,
     <<" ", " ", " ", " ", " ">>}
Cells == {NoneCell} \cup {CellOf(t) : t \in Texts \cup SampleTexts}

\* str.strip()
RECURSIVE lstrip(_)
lstrip(t) == IF t # <<>> /\ Head(t) = " " THEN lstrip(Tail(t)) ELSE t
RECURSIVE rstrip(_)
rstrip(t) ==
    IF t # <<>> /\ t[Len(t)] = " " THEN rstrip(SubSeq(t, 1, Len(t) - 1)) ELSE t
strip(t) == rstrip(lstrip(t))

\* str.replace(',', '')
RECURSIVE remove_commas(_)
remove_commas(t) ==
    IF t = <<>> THEN <<>>
    ELSE IF Head(t) = "," THEN remove_commas(Tail(t))
    ELSE <<Head(t)>> \o remove_commas(Tail(t))

\* float(s) accepts, of the strings over Chars, digits with at most one point
\* and at least one digit (blanks around them are ignored); anything else
\* raises ValueError.
PointsOf(t) == {i \in 1..Len(t) : t[i] = "."}
float_accepts(s) ==
    LET t == strip(s) IN
    /\ \A i \in 1..Len(t) : t[i] \in Digits \cup {"."}
    /\ Cardinality(PointsOf(t)) <= 1
    /\ \E i \in 1..Len(t) : t[i] \in Digits

DigitValue(c) == IF c = "1" THEN 1 ELSE 0
RECURSIVE Mantissa(_)
Mantissa(t) ==
    IF t = <<>> THEN 0
    ELSE IF t[Len(t)] = "." THEN Mantissa(SubSeq(t, 1, Len(t) - 1))
    ELSE 10 * Mantissa(SubSeq(t, 1, Len(t) - 1)) + DigitValue(t[Len(t)])

\* A float is kept exactly: mantissa / 10^frac.
NumberOf(mantissa, frac) == [kind |-> "number", mantissa |-> mantissa, frac |-> frac]
NaNValue == [kind |-> "nan", mantissa |-> 0, frac |-> 0]
NotParsed == [kind |-> "none", mantissa |-> 0, frac |-> 0]

\* float(s) for an accepted s
float(s) ==
    LET t == strip(s)
        p == PointsOf(t)
    IN NumberOf(Mantissa(t), IF p = {} THEN 0 ELSE Len(t) - (CHOOSE i \in p : TRUE))

\* clean_and_convert_num with empty cells turned into 0.0.
clean_and_convert_num_EmptyIsZero(val_str) ==
    IF val_str.none \/ strip(val_str.text) = <<>> THEN NumberOf(0, 1)
    ELSE LET clean_val == strip(remove_commas(val_str.text))
         IN IF float_accepts(clean_val) THEN float(clean_val) ELSE NaNValue

\* clean_and_convert_num of icici_parser.parse
clean_and_convert_num(val_str) ==
    IF val_str.none \/ strip(val_str.text) = <<>> THEN NaNValue
    ELSE LET clean_val == strip(remove_commas(val_str.text))
         IN IF float_accepts(clean_val) THEN float(clean_val) ELSE NaNValue

\* ------------------------------------------------------------------ state
VARIABLES
    pc,            \* where main() is
    exit_code,     \* "running", "zero", "nonzero"
    pdf_file,      \* data/<bank>/<bank>_sample.pdf: "absent", "corrupt", "ok"
    csv_file,      \* data/<bank>/<bank>_sample.csv
    pdf_text,      \* "None" until extracted
    csv_df,        \* the table analyze_csv_file returned
    attempt,       \* loop variable of main
    parser_code,   \* this attempt's generated code
    artifact,      \* content of custom_parsers/<bank>_parser.py
    verdict,       \* last (success, message) of test_parser
    status,        \* final status lines printed
    pytest_result, \* outcome of the harness test
    generated,     \* history: parser_code of every attempt begun
    failures,      \* history: attempts ended as failed attempts
    writes,        \* history: completed writes of the artifact
    verifications, \* history: calls of test_parser by main
    cell,          \* an amount cell handed to clean_and_convert_num
    amount         \* what clean_and_convert_num returned for it

vars == <<pc, exit_code, pdf_file, csv_file, pdf_text, csv_df, attempt, parser_code,
          artifact, verdict, status, pytest_result, generated, failures, writes,
          verifications, cell, amount>>

files == <<pdf_file, csv_file>>
cells == <<cell, amount>>
setup == <<pdf_text, csv_df>>
history == <<generated, failures, writes, verifications>>

NoVerdict == [success |-> FALSE, message |-> Message("none", "", <<>>, <<>>, ""),
              escaped |-> FALSE]

Init ==
    /\ pc = "makedirs"
    /\ exit_code = "running"
    /\ pdf_file \in {"absent", "corrupt", "ok"}
    /\ csv_file \in {CsvAbsent, CsvBroken, CsvOf(RefTable)}
    /\ pdf_text = "None"
    /\ csv_df = NoTable
    /\ attempt = 0
    /\ parser_code = NoneCode
    /\ artifact = PriorContent
    /\ verdict = NoVerdict
    /\ status = {}
    /\ pytest_result = "none"
    /\ generated = <<>>
    /\ failures = 0
    /\ writes = 0
    /\ verifications = 0
    /\ cell = NoCell
    /\ amount = NotParsed

\* ------------------------------------------------------------------ main
\* sys.exit(1)
Exit1 ==
    /\ pc' = "exited"
    /\ exit_code' = "nonzero"

\* An exception nothing catches: traceback, exit status 1.
Crash ==
    /\ pc' = "crashed"
    /\ exit_code' = "nonzero"

\* os.makedirs("custom_parsers", exist_ok=True): raises when the name is
\* taken by a file or the directory cannot be created.
MakeDirs ==
    /\ pc = "makedirs"
    /\ \/ pc' = "check_files" /\ UNCHANGED exit_code
       \/ Crash
    /\ UNCHANGED <<cells, files, setup, attempt, parser_code, artifact, verdict, status,
                   pytest_result, history>>

\* CheckSampleFiles without the check of the CSV sample.
CheckSampleFiles_PdfOnly ==
    /\ pc = "check_files"
    /\ IF pdf_file = "absent"
       THEN Exit1
       ELSE pc' = "extract" /\ UNCHANGED exit_code
    /\ UNCHANGED <<cells, files, setup, attempt, parser_code, artifact, verdict, status,
                   pytest_result, history>>

\* The two os.path.exists checks.
CheckSampleFiles ==
    /\ pc = "check_files"
    /\ IF pdf_file = "absent" \/ csv_file.kind = "absent"
       THEN Exit1
       ELSE pc' = "extract" /\ UNCHANGED exit_code
    /\ UNCHANGED <<cells, files, setup, attempt, parser_code, artifact, verdict, status,
                   pytest_result, history>>

\* extract_text_from_pdf: None on any exception of pdfplumber.
extract_text_from_pdf(pdf) == IF pdf = "ok" THEN "text" ELSE "None"

ExtractText ==
    /\ pc = "extract"
    /\ pdf_text' = extract_text_from_pdf(pdf_file)
    /\ IF pdf_text' = "None"
       THEN Exit1
       ELSE pc' = "analyze" /\ UNCHANGED exit_code
    /\ UNCHANGED <<cells, files, csv_df, attempt, parser_code, artifact, verdict, status,
                   pytest_result, history>>

\* analyze_csv_file: (None, None) on any exception of pd.read_csv.
AnalyzeCsv ==
    /\ pc = "analyze"
    /\ IF csv_file.kind # "table"
       THEN Exit1 /\ UNCHANGED <<csv_df, attempt>>
       ELSE /\ csv_df' = csv_file.table
            /\ attempt' = 1
            /\ pc' = "generate"
            /\ UNCHANGED exit_code
    /\ UNCHANGED <<cells, files, pdf_text, parser_code, artifact, verdict, status,
                   pytest_result, history>>

\* NextAttempt with the loop running one attempt too many (range(1, 5)).
NextAttempt_OneMore ==
    /\ failures' = failures + 1
    /\ IF attempt < MAX_ATTEMPTS + 1
       THEN /\ attempt' = attempt + 1
            /\ pc' = "generate"
            /\ UNCHANGED <<status, exit_code>>
       ELSE /\ status' = status \cup {"failed after 3 attempts"}
            /\ pc' = "done"
            /\ exit_code' = "zero"
            /\ UNCHANGED attempt

\* The end of a failed attempt: `continue`, or falling off the loop body; the
\* for statement takes the next attempt or, after the last one, runs its else
\* clause, which prints the final failure line, and main returns.
NextAttempt ==
    /\ failures' = failures + 1
    /\ IF attempt < MAX_ATTEMPTS
       THEN /\ attempt' = attempt + 1
            /\ pc' = "generate"
            /\ UNCHANGED <<status, exit_code>>
       ELSE /\ status' = status \cup {"failed after 3 attempts"}
            /\ pc' = "done"
            /\ exit_code' = "zero"
            /\ UNCHANGED attempt

\* GenerateParserCode without `if not parser_code: continue`.
GenerateParserCode_NoCheck ==
    /\ pc = "generate"
    /\ \E code \in {NoneCode} \cup {clean(r) : r \in Responses} :
          /\ parser_code' = code
          /\ generated' = Append(generated, code)
          /\ pc' = "save"
          /\ UNCHANGED <<attempt, status, exit_code, failures>>
    /\ UNCHANGED <<cells, files, setup, artifact, verdict, pytest_result, writes, verifications>>

\* generate_parser_code (one generate_content call), then `if not parser_code`.
GenerateParserCode ==
    /\ pc = "generate"
    /\ \E code \in {NoneCode} \cup {clean(r) : r \in Responses} :
          /\ parser_code' = code
          /\ generated' = Append(generated, code)
          /\ IF Falsy(code)
             THEN NextAttempt
             ELSE /\ pc' = "save"
                  /\ UNCHANGED <<attempt, status, exit_code, failures>>
    /\ UNCHANGED <<cells, files, setup, artifact, verdict, pytest_result, writes, verifications>>

\* SaveParser keeping the first code written (the file opened with 'x' after
\* an existence check instead of 'w').
SaveParser_KeepFirst ==
    /\ pc = "save"
    /\ \/ /\ artifact' = IF writes = 0 THEN parser_code ELSE artifact
          /\ writes' = writes + 1
          /\ pc' = "test"
          /\ UNCHANGED exit_code
       \/ Crash /\ UNCHANGED <<artifact, writes>>
       \/ Crash /\ artifact' = Truncated /\ UNCHANGED writes
    /\ UNCHANGED <<cells, files, setup, attempt, parser_code, verdict, status, pytest_result,
                   generated, failures, verifications>>

\* with open(output_path, 'w') as f: f.write(parser_code). Nothing catches
\* an OSError here: open may fail (the file is left as it was), and write or
\* close may fail after open has truncated the file.
SaveParser ==
    /\ pc = "save"
    /\ \/ /\ artifact' = parser_code
          /\ writes' = writes + 1
          /\ pc' = "test"
          /\ UNCHANGED exit_code
       \/ Crash /\ UNCHANGED <<artifact, writes>>
       \/ Crash /\ artifact' = Truncated /\ UNCHANGED writes
    /\ UNCHANGED <<cells, files, setup, attempt, parser_code, verdict, status, pytest_result,
                   generated, failures, verifications>>

\* TestParser without the break of the success branch.
TestParser_NoBreak ==
    /\ pc = "test"
    /\ verifications' = verifications + 1
    /\ verdict' = test_parser(artifact, csv_file)
    /\ IF verdict'.escaped
       THEN /\ pc' = "exited"
            /\ exit_code' \in {"zero", "nonzero"}
            /\ UNCHANGED <<attempt, status, failures>>
       ELSE IF verdict'.success /\ attempt = MAX_ATTEMPTS
       THEN /\ status' = status \cup {"success"}
            /\ pc' = "done"
            /\ exit_code' = "zero"
            /\ UNCHANGED <<attempt, failures>>
       ELSE IF verdict'.success
       THEN /\ attempt' = attempt + 1
            /\ pc' = "generate"
            /\ UNCHANGED <<status, exit_code, failures>>
       ELSE NextAttempt
    /\ UNCHANGED <<cells, files, setup, parser_code, artifact, pytest_result, generated, writes>>

\* TestParser comparing against the table analyze_csv_file loaded at setup.
TestParser_SetupTable ==
    /\ pc = "test"
    /\ verifications' = verifications + 1
    /\ verdict' = test_parser(artifact, CsvOf(csv_df))
    /\ IF verdict'.escaped
       THEN /\ pc' = "exited"
            /\ exit_code' \in {"zero", "nonzero"}
            /\ UNCHANGED <<attempt, status, failures>>
       ELSE IF verdict'.success
       THEN /\ status' = status \cup {"success"}
            /\ pc' = "done"
            /\ exit_code' = "zero"
            /\ UNCHANGED <<attempt, failures>>
       ELSE NextAttempt
    /\ UNCHANGED <<cells, files, setup, parser_code, artifact, pytest_result, generated, writes>>

\* success, message = test_parser(...), then the if/else on success.
TestParser ==
    /\ pc = "test"
    /\ verifications' = verifications + 1
    /\ verdict' = test_parser(artifact, csv_file)
    /\ IF verdict'.escaped
       THEN /\ pc' = "exited"
            /\ exit_code' \in {"zero", "nonzero"}
            /\ UNCHANGED <<attempt, status, failures>>
       ELSE IF verdict'.success
       THEN /\ status' = status \cup {"success"}
            /\ pc' = "done"
            /\ exit_code' = "zero"
            /\ UNCHANGED <<attempt, failures>>
       ELSE NextAttempt
    /\ UNCHANGED <<cells, files, setup, parser_code, artifact, pytest_result, generated, writes>>

\* The reference CSV is a file on disk: between the steps of the loop it can
\* be edited, replaced by something pd.read_csv rejects, or removed.
EditCsv ==
    /\ pc \in {"generate", "save", "test"}
    /\ csv_file' \in {CsvOf(RefTable), CsvOf(AltRefTable), CsvBroken, CsvAbsent} \ {csv_file}
    /\ UNCHANGED <<pc, exit_code, cells, pdf_file, setup, attempt, parser_code, artifact,
                   verdict, status, pytest_result, history>>

Next ==
    \/ EditCsv
    \/ MakeDirs
    \/ CheckSampleFiles
    \/ ExtractText
    \/ AnalyzeCsv
    \/ GenerateParserCode
    \/ SaveParser
    \/ TestParser

Spec == Init /\ [][Next]_vars

\* --------------------------------------------------------- verify, standalone
\* test_parser of agent.py and the harness test, each applied once to an
\* artifact and a reference file.
VerifyInit ==
    /\ pc = "standalone"
    /\ exit_code = "running"
    /\ pdf_file = "ok"
    /\ csv_file \in {CsvOf(t) : t \in ReferenceTables} \cup {CsvBroken}
    /\ pdf_text = "None"
    /\ csv_df = NoTable
    /\ attempt = 0
    /\ parser_code = NoneCode
    /\ artifact \in {CodeReturning(t) : t \in ResultTables}
                    \cup {CodeFault(k) : k \in FaultKinds} \cup {CodeFault("exits")}
    /\ verdict = NoVerdict
    /\ status = {}
    /\ pytest_result = "none"
    /\ generated = <<>>
    /\ failures = 0
    /\ writes = 0
    /\ verifications = 0
    /\ cell = NoCell
    /\ amount = NotParsed

AgentVerify ==
    /\ pc = "standalone"
    /\ verifications = 0
    /\ verifications' = 1
    /\ verdict' = test_parser(artifact, csv_file)
    /\ UNCHANGED <<pc, exit_code, cells, files, setup, attempt, parser_code, artifact, status,
                   pytest_result, generated, failures, writes>>

HarnessVerify ==
    /\ pc = "standalone"
    /\ pytest_result = "none"
    /\ pytest_result' = harness_test_parser(artifact, csv_file)
    /\ UNCHANGED <<pc, exit_code, cells, files, setup, attempt, parser_code, artifact, status,
                   verdict, history>>

VerifyNext == AgentVerify \/ HarnessVerify

VerifySpec == VerifyInit /\ [][VerifyNext]_vars

\* ============================================================ retry controller
InLoop == pc \in {"generate", "save", "test"}
Passed == pc = "done" /\ "success" \in status
Exhausted == pc = "done" /\ "failed after 3 attempts" \in status

\* C1: at most MAX_ATTEMPTS attempts are made, every attempt begun has made
\* exactly one synthesis call (generated holds one entry per call), and once
\* three attempts have ended as failed attempts the run has ended with the
\* final status failed: there is no fourth synthesis call, artifact write or
\* verification.
C1_AtMostThreeAttempts ==
    /\ attempt <= MAX_ATTEMPTS
    /\ Len(generated) <= MAX_ATTEMPTS
    /\ writes <= Len(generated)
    /\ verifications <= writes
    /\ pc = "generate" => Len(generated) = attempt - 1
    /\ pc \in {"save", "test"} => Len(generated) = attempt
    /\ attempt >= 1 /\ ~InLoop => Len(generated) = attempt
    /\ failures = MAX_ATTEMPTS =>
          /\ pc = "done"
          /\ status = {"failed after 3 attempts"}
          /\ Len(generated) = MAX_ATTEMPTS

C1_Witness ==
    /\ failures = MAX_ATTEMPTS
    /\ Len(generated) = MAX_ATTEMPTS
    /\ verifications = MAX_ATTEMPTS
    /\ pc = "done"

\* C2: a passed verdict ends the run at once with the final status success
\* (at attempt 1, 2 or 3), and from then on no synthesis call, artifact write
\* or verification happens.
C2_ShortCircuit ==
    /\ [](verdict.success =>
            /\ pc = "done"
            /\ status = {"success"}
            /\ failures = attempt - 1
            /\ Len(generated) = attempt
            /\ verifications = writes)
    /\ [][verdict.success => UNCHANGED <<generated, writes, verifications, artifact>>]_vars

C2_Witness ==
    /\ Passed
    /\ attempt = MAX_ATTEMPTS
    /\ failures = MAX_ATTEMPTS - 1
    /\ verifications = MAX_ATTEMPTS
    /\ artifact = generated[MAX_ATTEMPTS]

\* The code of the last attempt whose synthesis returned code; the content
\* the file had before the run when no attempt's synthesis did.
RECURSIVE LastCode(_)
LastCode(codes) ==
    IF codes = <<>> THEN PriorContent
    ELSE IF ~Falsy(codes[Len(codes)]) THEN codes[Len(codes)]
    ELSE LastCode(SubSeq(codes, 1, Len(codes) - 1))

\* C3 as claimed: when the loop has ended, the artifact holds the code
\* generated by the last attempt made.
C3_Original ==
    pc = "done" => artifact = generated[Len(generated)]

\* C3, amended: when the loop has ended (Passed or Exhausted), the artifact
\* holds the code of the last attempt whose synthesis returned non-empty code,
\* whether that attempt went on to pass or to fail; when no attempt's
\* synthesis returned code, the artifact is what it was before the run.
C3_LastSynthesizedCode ==
    pc = "done" => artifact = LastCode(generated)

C3_Witness ==
    /\ Exhausted
    /\ ~Falsy(generated[1])
    /\ generated[2] # generated[1]
    /\ ~Falsy(generated[2])
    /\ Falsy(generated[3])
    /\ artifact = generated[2]

\* C4 as claimed: once the loop has been entered, no failure of an attempt
\* takes the process out of it: main is inside the loop or has left it through
\* the break or the else clause.
C4_NoFailureEscapes ==
    attempt >= 1 => pc \in {"generate", "save", "test", "done"}

\* C5 as claimed: once setup has succeeded, a run that has ended has exit
\* status 0 and exactly one final status: success when an attempt passed,
\* failed after 3 attempts when three attempts failed.
C5_FinalStatus ==
    attempt >= 1 /\ ~InLoop =>
        /\ exit_code = "zero"
        /\ Cardinality(status) = 1
        /\ "success" \in status <=> verdict.success
        /\ "failed after 3 attempts" \in status <=> failures = MAX_ATTEMPTS

\* C6: a setup step that meets a missing PDF, a missing CSV, a PDF that
\* cannot be extracted or a CSV that cannot be analyzed exits nonzero on the
\* spot; before the first attempt there is no synthesis call, no verification
\* and no write, and the artifact is what it was.
SetupFails ==
    \/ pc = "check_files" /\ (pdf_file = "absent" \/ csv_file.kind = "absent")
    \/ pc = "extract" /\ pdf_file # "ok"
    \/ pc = "analyze" /\ csv_file.kind # "table"

C6_SetupFailuresFatal ==
    /\ [](attempt = 0 =>
            /\ generated = <<>>
            /\ writes = 0
            /\ verifications = 0
            /\ artifact = PriorContent
            /\ status = {})
    /\ [](attempt = 0 /\ pc \in {"exited", "crashed"} => exit_code = "nonzero")
    /\ [][SetupFails =>
            /\ pc' = "exited"
            /\ exit_code' = "nonzero"
            /\ attempt' = 0
            /\ UNCHANGED <<artifact, history>>]_vars

C6_Witness ==
    /\ pc = "exited"
    /\ attempt = 0
    /\ pdf_file = "ok"
    /\ csv_file = CsvBroken
    /\ exit_code = "nonzero"
    /\ artifact = PriorContent

\* ==================================================================== verify
\* test_parser of agent.py has run on a candidate that returned a table and on
\* a readable reference file.
Verified ==
    /\ verifications = 1
    /\ artifact.kind = "table"
    /\ csv_file.kind = "table"

\* Equal values column by column, whatever the element types.
SameValues(a, b) ==
    /\ Len(a.columns) = Len(b.columns)
    /\ \A i \in 1..Len(a.columns) :
          array_equivalent(a.columns[i].values, b.columns[i].values)

\* C7 as claimed: on every candidate output table and reference table the
\* harness test passes exactly when test_parser of agent.py returns success.
C7_HarnessAgreesWithAgent ==
    Verified /\ pytest_result # "none" =>
        (pytest_result = "passed" <=> verdict.success)

\* C8 as claimed: a result with the shape, the column names in order and the
\* values of the reference passes, whatever its row labels.
C8_SameContentPasses ==
    (/\ Verified
     /\ shape(artifact.table) = shape(csv_file.table)
     /\ columns(artifact.table) = columns(csv_file.table)
     /\ SameValues(artifact.table, csv_file.table))
    => verdict.success

\* C9: whenever the shapes differ, the verdict is failed with the shape
\* mismatch reason carrying the result's and the reference's shape, never a
\* missing-column or column-value reason, the column names differing or not.
C9_ShapeFirst ==
    Verified /\ shape(artifact.table) # shape(csv_file.table) =>
        verdict = Verdict(FALSE, Message("shape", "", shape(artifact.table),
                                         shape(csv_file.table), ""))

C9_Witness ==
    /\ Verified
    /\ shape(artifact.table) = <<0, 1>>
    /\ shape(csv_file.table) = <<1, 2>>
    /\ ~HasColumn(artifact.table, "Date")
    /\ verdict.message.result = <<0, 1>>
    /\ verdict.message.expected = <<1, 2>>

\* The reference columns absent from the result, by position.
Absent(result, expected) ==
    {i \in 1..Len(expected.columns) : ~HasColumn(result, expected.columns[i].name)}
FirstAbsent(result, expected) ==
    CHOOSE i \in Absent(result, expected) : \A j \in Absent(result, expected) : i <= j

DiffersBefore(result, expected, a) ==
    {j \in 1..(a - 1) :
        ~SeriesEquals(reset_index(result), expected, expected.columns[j].name)}

ValueDiffers(result, expected) ==
    {i \in 1..Len(expected.columns) :
        ~array_equivalent(result.columns[i].values, expected.columns[i].values)}

\* C12 as claimed: with the same shape and the same column names in the same
\* order, and values that differ, the reason is the column-value reason naming
\* the first column, in reference order, whose values differ element-wise.
C12_FirstDifferingColumn ==
    (/\ Verified
     /\ shape(artifact.table) = shape(csv_file.table)
     /\ columns(artifact.table) = columns(csv_file.table)
     /\ ValueDiffers(artifact.table, csv_file.table) # {})
    => LET d == ValueDiffers(artifact.table, csv_file.table)
       IN verdict = Verdict(FALSE,
             Message("column",
                     csv_file.table.columns[CHOOSE i \in d : \A k \in d : i <= k].name,
                     <<>>, <<>>, ""))

\* C13 as claimed: a verdict test_parser returns is passed, or failed with one
\* of the four reasons execution error, shape mismatch, missing column,
\* column doesn't match; a failed verdict never has an empty reason.
C13_ReasonNeverEmpty ==
    verifications = 1 /\ ~verdict.escaped =>
        \/ verdict.success /\ verdict.message.kind = "passed"
        \/ ~verdict.success /\ verdict.message.kind \in {"error", "shape", "missing", "column"}

\* C14 as claimed: test_parser always returns a verdict, and whenever the
\* artifact cannot be loaded, the candidate does not return a table or the
\* reference cannot be read, that verdict is failed with the error reason.
C14_NeverRaises ==
    verifications = 1 =>
        /\ ~verdict.escaped
        /\ artifact.kind # "table" \/ csv_file.kind # "table" =>
              /\ ~verdict.success
              /\ verdict.message.kind = "error"
              /\ verdict.message.error # ""

\* ------------------------------------------------- main and verify together
\* The runs of main together with the standalone verifications.
AllInit == Init \/ VerifyInit
AllNext == Next \/ VerifyNext
AllSpec == AllInit /\ [][AllNext]_vars

\* ------------------------------------------------------ amount cells, alone
\* clean_and_convert_num applied once to a cell.
ParseInit ==
    /\ pc = "cell"
    /\ exit_code = "running"
    /\ pdf_file = "ok"
    /\ csv_file = CsvOf(RefTable)
    /\ pdf_text = "None"
    /\ csv_df = NoTable
    /\ attempt = 0
    /\ parser_code = NoneCode
    /\ artifact = PriorContent
    /\ verdict = NoVerdict
    /\ status = {}
    /\ pytest_result = "none"
    /\ generated = <<>>
    /\ failures = 0
    /\ writes = 0
    /\ verifications = 0
    /\ cell \in Cells
    /\ amount = NotParsed

CleanAndConvertNum ==
    /\ pc = "cell"
    /\ amount = NotParsed
    /\ amount' = clean_and_convert_num(cell)
    /\ UNCHANGED <<pc, exit_code, cell, files, setup, attempt, parser_code, artifact,
                   verdict, status, pytest_result, history>>

ParseNext == CleanAndConvertNum

ParseSpec == ParseInit /\ [][ParseNext]_vars

\* ========================================================== reference reload
\* C15: every verification of main reads the reference CSV as it is on disk
\* at that moment: the verdict of an attempt is the comparison against the
\* file's current content (an error verdict when the file has become
\* unreadable), not against the table loaded at setup or in an earlier
\* attempt.
C15_ReferenceReadAfresh ==
    [][pc = "test" /\ verifications' = verifications + 1 /\ artifact.kind = "table" =>
          verdict' = IF csv_file.kind = "table"
                     THEN Compare(artifact.table, csv_file.table)
                     ELSE Verdict(FALSE, Message("error", "", <<>>, <<>>, "read_csv"))]_vars

C15_Witness ==
    /\ Passed
    /\ failures >= 1
    /\ csv_df = RefTable
    /\ csv_file = CsvOf(AltRefTable)
    /\ artifact = WrongValueCode
    /\ ~Compare(artifact.table, csv_df).success

\* ============================================================== amount cells
RECURSIVE Pow10(_)
Pow10(n) == IF n = 0 THEN 1 ELSE 10 * Pow10(n - 1)
HasDigit(t) == \E i \in 1..Len(t) : t[i] \in Digits
HasLetter(t) == \E i \in 1..Len(t) : t[i] = "x"
Blank(t) == \A i \in 1..Len(t) : t[i] = " "

NonEmpty(codes) == Cardinality({i \in 1..Len(codes) : ~Falsy(codes[i])})

\* C17: the artifact is written (or truncated) only in the save step of an
\* attempt whose synthesis returned non-empty code, with that attempt's code,
\* at most once per such attempt and so at most MAX_ATTEMPTS times, and before
\* that attempt's verification; an attempt whose synthesis fails or returns
\* empty code leaves the artifact as it was and runs no verification.
C17_WriteOncePerAttempt ==
    /\ [](writes <= NonEmpty(generated) /\ writes <= MAX_ATTEMPTS)
    /\ [][writes' # writes \/ artifact' # artifact =>
            /\ pc = "save"
            /\ ~Falsy(parser_code)
            /\ parser_code = generated[attempt]
            /\ NonEmpty(generated) = writes + 1
            /\ verifications = writes
            /\ artifact' \in {parser_code, Truncated}
            /\ verifications' = verifications]_vars
    /\ [][verifications' # verifications =>
            /\ pc = "test"
            /\ writes = verifications + 1
            /\ artifact = generated[attempt]]_vars
    /\ [][pc = "generate" /\ Len(generated') = Len(generated) + 1 /\ Falsy(parser_code') =>
            /\ UNCHANGED <<artifact, writes, verifications>>
            /\ pc' \in {"generate", "done"}]_vars

C17_Witness ==
    /\ pc = "generate"
    /\ attempt = MAX_ATTEMPTS
    /\ ~Falsy(generated[1])
    /\ Falsy(generated[2])
    /\ artifact = generated[1]
    /\ writes = 1
    /\ verifications = 1

\* ================================================================= soundness
\* C18: a passed verdict is returned only for a candidate that returned a
\* table which, row labels dropped, has the shape, the column names in order
\* and the values of the reference read in that verification; and a run has
\* printed success only with such a verdict for the code in the artifact file.
C18_PassedIsSound ==
    /\ "success" \in status => verdict.success
    /\ verdict.success =>
          /\ artifact.kind = "table"
          /\ csv_file.kind = "table"
          /\ shape(artifact.table) = shape(csv_file.table)
          /\ columns(artifact.table) = columns(csv_file.table)
          /\ SameValues(artifact.table, csv_file.table)
          /\ reset_index(artifact.table).index = csv_file.table.index

C18_Witness ==
    /\ Passed
    /\ artifact = MatchingCode
    /\ csv_file = CsvOf(RefTable)
    /\ artifact.table.index # csv_file.table.index

====
